---- MODULE Spec2Model ----
(***************************************************************************)
(* Model of `lk app create` (cmd/lk/app.go): project resolution            *)
(* (requireProject), template resolution and naming (setupTemplate), the   *)
(* staged clone (cloneTemplate), environment instantiation and the         *)
(* install / post-create tasks.  One behaviour is one invocation of the    *)
(* command; the file system, the remote catalog and the answers given at   *)
(* the prompts are the environment and are chosen nondeterministically.    *)
(*                                                                         *)
(* Spec is `lk app create`.  TaskSpec is the task flows: `lk app install`, *)
(* `lk app run`, and doInstall / doPostCreate from their call.  EnvSpec is *)
(* instantiateEnv with its prompt function.  DispatchSpec is the           *)
(* `lk dispatch` commands of the dispatch file.                            *)
(***************************************************************************)
EXTENDS Integers, Sequences, FiniteSets, TLC

\* ------------------------------------------------------------------ bounds
\* longest list of templates the catalog or a sandbox returns
MaxTemplates == 2
\* most projects found in the local configuration before the command runs
MaxProjects == 1
\* cap on nested calls of requireProject (line 148)
MaxDepth == 3
\* most calls of the prompt function by one InstantiateDotEnv
MaxPrompts == 2

\* ------------------------------------------------------- program constants
\* len(s) < 3 in the name validator
MinNameLen == 3

\* ------------------------------------------------------------------ values
\* an error value: nil, or an error with its message (and the value it names)
Nil == <<"nil">>
Running == <<"running">>
Err(msg) == <<"err", msg>>
ErrNamed(msg, what) == <<"err", msg, what>>
IsErr(e) == e[1] = "err"

\* package-level project: nil, the project loadProjectDetails found, or the
\* k-th project of cliConfig.Projects chosen at the select
NoProject == <<"nil">>
DetailsProject == <<"details">>
ConfigProject(k) == <<"config", k>>

\* bootstrap.Template{Name, URL}
Template(n, u) == [Name |-> n, URL |-> u]
TemplatePool == {Template("foo", "u1"), Template("foo", "u2"), Template("bar", "u3")}
SeqsUpTo(S, n) == UNION {[1..k -> S] : k \in 0..n}
RemoteLists == SeqsUpTo(TemplatePool, MaxTemplates)

\* names are sequences of characters
LetterChars == {"a", "b", "m", "p", "s", "y"}
DigitChars == {"1", "9"}
NameApp3 == <<"a", "p", "p">>
NameDigit == <<"9", "a", "p">>
NameShort == <<"a", "b">>
NameSandbox == <<"s", "b", "1">>
NameHyphen == <<"m", "y", "-", "a">>
Empty == <<>>
\* what the user may type at the name prompt, what APP_NAME may be, --sandbox
TypedNames == {Empty, NameShort, NameApp3, NameDigit, NameHyphen, NameSandbox}
ArgNames == {Empty, NameApp3, NameDigit}
SandboxIDs == {Empty, NameSandbox}
TemplateNames == {"", "foo", "zzz"}
URLFlags == {"", "u9"}

\* ------------------------------------------------------------- task files
\* bootstrap.TaskInstall, bootstrap.TaskPostCreate
TaskInstall == "install"
TaskPostCreate == "post-create"

\* what ParseTaskfile returns: an error, or a task file with its task names
Unparsed == <<"unparsed">>
BadTaskfile == <<"bad">>
Taskfile(S) == <<"ok", S>>
TaskSets == {{}, {TaskInstall}, {TaskPostCreate, "dev"}, {TaskInstall, TaskPostCreate, "dev"}}
Taskfiles == {BadTaskfile} \cup {Taskfile(S) : S \in TaskSets}
\* tf.Tasks.Keys()
TasksOf(tf) == IF tf[1] = "ok" THEN tf[2] ELSE {}
\* the TASK argument of `lk app run`
TaskArgs == {"", TaskInstall, "dev", "zzz"}

\* ------------------------------------------------------------- file system
\* a directory is the set of its entries; Absent marks a path that does not exist
Absent == {"ENOENT"}
CloneFull == {"src", ".git"}
ClonePartial == {"part", ".git"}
AppPaths == {NameApp3, NameDigit, NameHyphen, NameSandbox}
PreContents == {{}, {"src"}, {"src", ".env"}}

\* useTempPath: the staging path of an application directory
TempPath(name) == <<"lk-temp/">> \o name
Paths == AppPaths \cup {TempPath(n) : n \in AppPaths}

\* os.Stat(s): s, _ := os.Stat(s); s != nil
Stat(f, s) == s \in DOMAIN f /\ f[s] # Absent

\* ------------------------------------------------------------------- state
VARIABLES
    pc,              \* position of the invocation
    ret,             \* what the command returns (Running until it returns)
    visited,         \* the driver states entered, in order
    effects,         \* collaborators setupTemplate has called
    templateName,    \* --template
    templateURL,     \* --template-url, later the resolved URL
    urlFlag,         \* --template-url as given
    sandboxID,       \* --sandbox
    argName,         \* cmd.Args().First()
    install,         \* --install
    template,        \* package-level template: <<>> (nil) or <<t>>
    templateOptions, \* templateOptions of setupTemplate
    selectPending,   \* the template select is among preinstallPrompts
    appName,         \* package-level appName
    project,         \* package-level project (NoProject is nil)
    credsOK,         \* loadProjectDetails finds usable credentials
    cliProjects,     \* len(cliConfig.Projects)
    depth,           \* nested calls of requireProject
    fs,              \* the file system
    fs0,             \* the file system before the command ran
    tempName,        \* tempName of cloneTemplate
    cmdErr,          \* cmdErr of cloneTemplate
    gitStripped,     \* os.RemoveAll(tempName/.git) has run in this clone
    cloneRet,        \* what cloneTemplate returns (pending until the defer ran)
    envRet,          \* what instantiateEnv returned
    taskRet,         \* what doInstall / doPostCreate returned
    taskRuns,        \* how many times a task's executable unit was invoked
    taskCmdErr,      \* cmdErr of doInstall / doPostCreate (lines 346, 369)
    remoteResult,    \* <<>>, or <<l>> once a fetch has returned the list l
    flow,            \* the command or function under way
    taskfile,        \* what bootstrap.ParseTaskfile returned
    taskArg,         \* cmd.Args().First() of `lk app run`
    taskName,        \* the task name handed to bootstrap.NewTask
    spinErr,         \* what the task's spinner.Run returned
    addlEnv,         \* addlEnv of instantiateEnv: <<>> (nil) or <<m>>
    envPassed,       \* <<>>, or <<env>> once env went to InstantiateDotEnv
    promptIn,        \* <<>>, or the last prompt: <<key, oldValue, newValue, err>>
    promptOut,       \* <<>>, or what that prompt returned: <<value, err>>
    prompts,         \* how many times InstantiateDotEnv has called prompt
    dArgs,           \* cmd.Args() of a dispatch command
    dFlags,          \* the flags of a dispatch command
    dCalls,          \* the requests sent to the AgentDispatchServiceClient
    dHelp            \* how many times cli.ShowSubcommandHelp was called

vars == <<pc, ret, visited, effects, templateName, templateURL, urlFlag, sandboxID,
          argName, install, template, templateOptions, selectPending, appName,
          project, credsOK, cliProjects, depth, fs, fs0, tempName, cmdErr,
          gitStripped, cloneRet, envRet, taskRet, taskRuns, taskCmdErr, remoteResult,
          flow, taskfile, taskArg, taskName, spinErr, addlEnv, envPassed,
          promptIn, promptOut, prompts, dArgs, dFlags, dCalls, dHelp>>

flagVars == <<templateName, urlFlag, sandboxID, argName, install, fs0>>
projVars == <<project, credsOK, cliProjects, depth>>
tmplVars == <<templateURL, template, templateOptions, selectPending, remoteResult>>
cloneVars == <<tempName, cmdErr, gitStripped, cloneRet>>
taskVars == <<taskfile, taskName, spinErr>>
envVars == <<addlEnv, envPassed>>
promptVars == <<promptIn, promptOut, prompts>>
dispVars == <<dArgs, dFlags, dCalls, dHelp>>
otherVars == <<flow, taskArg, promptVars, dispVars>>
laterVars == <<envRet, taskRet, taskRuns, taskCmdErr, taskVars, envVars, otherVars>>

\* rootPath "." of the install, run and env commands
Dot == <<".">>

\* no task file has been parsed and no task resolved
NoTask ==
    /\ taskfile = Unparsed
    /\ taskName = ""
    /\ spinErr = Nil
    /\ taskRet = Running
    /\ taskRuns = 0
    /\ taskCmdErr = Nil

\* instantiateEnv has not been called
NoEnv ==
    /\ addlEnv = <<>>
    /\ envPassed = <<>>
    /\ envRet = Running

\* InstantiateDotEnv has not called prompt
NoPrompt ==
    /\ promptIn = <<>>
    /\ promptOut = <<>>
    /\ prompts = 0

\* no dispatch command is under way
NoDispatch ==
    /\ dArgs = <<>>
    /\ dFlags = <<>>
    /\ dCalls = <<>>
    /\ dHelp = 0

\* the file systems the command may start in: at most one application path
\* exists already; no staging path exists (useTempPath verifies it unused)
InitialFS ==
    {[p \in Paths |-> Absent]} \cup
    {[p \in Paths |-> IF p = n THEN c ELSE Absent] : n \in {NameApp3, NameSandbox}, c \in PreContents}

Init ==
    /\ pc = "ResolvingProject"
    /\ ret = Running
    /\ visited = <<"ResolvingProject">>
    /\ effects = {}
    /\ templateName \in TemplateNames
    /\ templateURL \in URLFlags
    /\ urlFlag = templateURL
    /\ sandboxID \in SandboxIDs
    /\ argName \in ArgNames
    /\ install \in BOOLEAN
    /\ template = <<>>
    /\ templateOptions = <<>>
    /\ selectPending = FALSE
    /\ appName = Empty
    /\ project = NoProject
    /\ credsOK \in BOOLEAN
    /\ cliProjects \in 0..MaxProjects
    /\ depth = 0
    /\ fs \in InitialFS
    /\ fs0 = fs
    /\ tempName = Empty
    /\ cmdErr = Nil
    /\ gitStripped = FALSE
    /\ cloneRet = Running
    /\ remoteResult = <<>>
    /\ flow = "create"
    /\ taskArg = ""
    /\ NoTask
    /\ NoEnv
    /\ NoPrompt
    /\ NoDispatch

\* the command returns err: no later state is entered
Fail(err) ==
    /\ pc' = "Failed"
    /\ ret' = err
    /\ UNCHANGED visited

\* the driver enters its next state
Enter(state) ==
    /\ pc' = state
    /\ visited' = Append(visited, state)
    /\ UNCHANGED ret

\* ------------------------------------------------------ requireProject
\* loadProjectDetails(cmd) returns a project (err == nil)
LoadProjectDetailsOK(creds) == creds

\* line 119: len(cliConfig.Projects) > 0
HasLocalProjectsMutant(n) == n > 1
HasLocalProjects(n) == n > 0

\* tryAuthIfNeeded, when it returns nil, has added the authenticated project
\* to the local configuration
AuthAdds(n) == n + 1

\* requireProject, one call of it (lines 110-156); line 148 calls it again
RequireProject ==
    /\ pc = "ResolvingProject"
    /\ UNCHANGED <<effects, flagVars, tmplVars, appName, fs, cloneVars, laterVars>>
    /\ IF LoadProjectDetailsOK(credsOK)
       THEN \* line 112 succeeds, line 155 returns nil
            /\ project' = DetailsProject
            /\ Enter("ResolvingTemplate")
            /\ UNCHANGED <<credsOK, cliProjects, depth>>
       ELSE \/ \* line 113: loadProjectConfig fails
               /\ Fail(Err("config file"))
               /\ project' = NoProject
               /\ UNCHANGED <<credsOK, cliProjects, depth>>
            \/ /\ HasLocalProjects(cliProjects)
               /\ \/ \* lines 124-132: the select is aborted
                     /\ Fail(Err("user aborted"))
                     /\ project' = NoProject
                  \/ \* the select sets project, line 155 returns nil
                     /\ \E k \in 1..cliProjects : project' = ConfigProject(k)
                     /\ Enter("ResolvingTemplate")
               /\ UNCHANGED <<credsOK, cliProjects, depth>>
            \/ /\ ~HasLocalProjects(cliProjects)
               /\ \/ \* lines 135-142: the confirm is aborted
                     /\ Fail(Err("user aborted"))
                     /\ project' = NoProject
                     /\ UNCHANGED <<credsOK, cliProjects, depth>>
                  \/ \* line 150: shouldAuth is false
                     /\ Fail(Err("no project selected"))
                     /\ project' = NoProject
                     /\ UNCHANGED <<credsOK, cliProjects, depth>>
                  \/ \* lines 144-147: tryAuthIfNeeded fails
                     /\ Fail(Err("auth failed"))
                     /\ project' = NoProject
                     /\ UNCHANGED <<credsOK, cliProjects, depth>>
                  \/ \* lines 144-148: authenticated, requireProject is called again
                     /\ depth < MaxDepth
                     /\ depth' = depth + 1
                     /\ cliProjects' = AuthAdds(cliProjects)
                     /\ credsOK' \in BOOLEAN
                     /\ project' = NoProject
                     /\ UNCHANGED <<pc, ret, visited>>

\* ------------------------------------------------------ setupTemplate
\* line 166: templateName != "" && templateURL != ""
BothSetNever(n, u) == FALSE
BothSet(n, u) == n # "" /\ u # ""

\* line 180: len(details.ChildTemplates) == 0
NoChildrenNever(c) == FALSE
NoChildren(c) == Len(c) = 0

\* lines 207-213: the first template of opts named name (0: none)
FindTemplateAny(opts, name) == IF Len(opts) > 0 THEN 1 ELSE 0
FindTemplate(opts, name) ==
    IF \E i \in 1..Len(opts) : opts[i].Name = name
    THEN CHOOSE i \in 1..Len(opts) :
            /\ opts[i].Name = name
            /\ \A j \in 1..(i - 1) : opts[j].Name # name
    ELSE 0

\* lines 194-217, once templateOptions is opts
ChooseTemplate(opts) ==
    IF templateName = "" /\ templateURL = ""
    THEN \* lines 195-204: the select is added to the form
         /\ selectPending' = TRUE
         /\ UNCHANGED <<template, templateURL>>
         /\ Enter("NamingApp")
    ELSE IF templateName # ""
    THEN LET i == FindTemplate(opts, templateName) IN
         IF i = 0
         THEN \* line 215 (template is nil at the start of the command)
              /\ Fail(ErrNamed("template not found: ", templateName))
              /\ UNCHANGED <<template, templateURL, selectPending>>
         ELSE /\ template' = <<opts[i]>>
              /\ templateURL' = opts[i].URL
              /\ UNCHANGED selectPending
              /\ Enter("NamingApp")
    ELSE /\ UNCHANGED <<template, templateURL, selectPending>>
         /\ Enter("NamingApp")

\* setupTemplate, lines 158-217: the template is resolved
ResolveTemplate ==
    /\ pc = "ResolvingTemplate"
    /\ UNCHANGED <<flagVars, projVars, appName, fs, cloneVars, laterVars>>
    /\ IF BothSet(templateName, templateURL)
       THEN \* line 167
            /\ Fail(Err("only one of template or template-url can be specified"))
            /\ UNCHANGED <<effects, tmplVars>>
       ELSE IF sandboxID # Empty
       THEN \/ \* lines 171-174: requireToken fails
               /\ Fail(Err("token"))
               /\ effects' = effects \cup {"requireToken"}
               /\ UNCHANGED tmplVars
            \/ \* line 175: --template-url is given, nothing is fetched
               /\ templateURL # ""
               /\ effects' = effects \cup {"requireToken"}
               /\ templateOptions' = <<>>
               /\ UNCHANGED remoteResult
               /\ ChooseTemplate(<<>>)
            \/ \* lines 176-179: FetchSandboxDetails fails
               /\ templateURL = ""
               /\ Fail(Err("fetch sandbox"))
               /\ effects' = effects \cup {"requireToken", "FetchSandboxDetails"}
               /\ UNCHANGED tmplVars
            \/ \* lines 176-183
               /\ templateURL = ""
               /\ effects' = effects \cup {"requireToken", "FetchSandboxDetails"}
               /\ \E children \in RemoteLists :
                    /\ remoteResult' = <<children>>
                    /\ IF NoChildren(children)
                       THEN /\ Fail(Err("no child templates found for sandbox"))
                            /\ UNCHANGED <<templateURL, template, templateOptions, selectPending>>
                       ELSE /\ templateOptions' = children
                            /\ ChooseTemplate(children)
       ELSE \/ \* lines 187-190: FetchTemplates fails
               /\ Fail(Err("fetch templates"))
               /\ effects' = effects \cup {"FetchTemplates"}
               /\ UNCHANGED tmplVars
            \/ /\ effects' = effects \cup {"FetchTemplates"}
               /\ \E catalog \in RemoteLists :
                    /\ remoteResult' = <<catalog>>
                    /\ templateOptions' = catalog
                    /\ ChooseTemplate(catalog)

\* appNameRegex, line 39: ^[a-zA-Z_][a-zA-Z0-9_-]*$
MatchAppName(s) ==
    /\ Len(s) >= 1
    /\ s[1] \in LetterChars \cup {"_"}
    /\ \A i \in 2..Len(s) : s[i] \in LetterChars \cup DigitChars \cup {"_", "-"}

\* the Validate function of the name input, lines 226-237
Validate(s, f) ==
    IF Len(s) < MinNameLen THEN "name is too short"
    ELSE IF ~MatchAppName(s) THEN "try a simpler name"
    ELSE IF Stat(f, s) THEN "that name is in use"
    ELSE "ok"

\* setupTemplate, lines 219-248: the name is taken from APP_NAME or asked
\* for, and the form of the pending prompts is run
NameApp ==
    /\ pc = "NamingApp"
    /\ UNCHANGED <<flagVars, projVars, template, templateOptions, selectPending,
                   remoteResult, fs, cloneVars, laterVars>>
    /\ IF argName # Empty /\ ~selectPending
       THEN \* no prompt: line 241 skips the form
            /\ appName' = argName
            /\ UNCHANGED <<templateURL, effects>>
            /\ Enter("Cloning")
       ELSE /\ effects' = effects \cup {"form"}
            /\ \/ \* lines 243-247: the form is aborted
                  /\ Fail(Err("user aborted"))
                  /\ appName' = (IF argName = Empty THEN sandboxID ELSE argName)
                  /\ UNCHANGED templateURL
               \/ \* the form is submitted
                  /\ IF selectPending /\ Len(templateOptions) > 0
                     THEN \E i \in 1..Len(templateOptions) :
                            templateURL' = templateOptions[i].URL
                     ELSE UNCHANGED templateURL
                  /\ IF argName = Empty
                     THEN \E s \in TypedNames :
                            /\ Validate(s, fs) = "ok"
                            /\ appName' = s
                     ELSE appName' = argName
                  /\ Enter("Cloning")

\* ------------------------------------------------------ cloneTemplate
\* os.RemoveAll(path.Join(tempName, ".git")), line 281, on a directory's entries
StripGitNoop(c) == c
StripGit(c) == c \ {".git"}

\* lines 292-295: relocate() is reached only when cmdErr is nil
ShouldRelocateAlways(e) == TRUE
ShouldRelocate(e) == e = Nil

\* line 274, defer cleanup(): cleanup runs whatever cloneTemplate returns
CleanupOnSuccessOnly(r) == r = Nil
CleanupRuns(r) == TRUE

\* relocate(): the staging path is renamed to the final name; an existing
\* final directory is an error and nothing is moved
RelocateErr(f, from, to) ==
    IF f[to] # Absent THEN Err("rename: file exists")
    ELSE IF f[from] = Absent THEN Err("rename: no such file or directory")
    ELSE Nil
RelocateFS(f, from, to) ==
    IF RelocateErr(f, from, to) = Nil
    THEN [f EXCEPT ![to] = f[from], ![from] = Absent]
    ELSE f

\* cleanup(): the staging path is removed with all it holds
CleanupFS(f, tmp) == [f EXCEPT ![tmp] = Absent]

\* line 273: tempName, relocate, cleanup := useTempPath(appName); defer cleanup()
UseTempPath ==
    /\ pc = "Cloning"
    /\ tempName' = TempPath(appName)
    /\ effects' = effects \cup {"cloneTemplate"}
    /\ pc' = "clone.spinner"
    /\ UNCHANGED <<ret, visited, flagVars, projVars, tmplVars, appName, fs,
                   cmdErr, gitStripped, cloneRet, laterVars>>

\* lines 276-286: the spinner fails before its action has run
SpinnerFails ==
    /\ pc = "clone.spinner"
    /\ cloneRet' = Err("spinner")
    /\ pc' = "clone.defer"
    /\ UNCHANGED <<ret, visited, effects, flagVars, projVars, tmplVars, appName, fs,
                   tempName, cmdErr, gitStripped, laterVars>>

\* lines 279-280: git clone --depth=1 url tempName.  A clone that succeeds
\* leaves the working tree and .git; one that fails leaves nothing or a part
GitClone ==
    /\ pc = "clone.spinner"
    /\ effects' = effects \cup {"git clone"}
    /\ \/ /\ templateURL # ""
          /\ cmdErr' = Nil
          /\ fs' = [fs EXCEPT ![tempName] = CloneFull]
       \/ /\ cmdErr' = Err("exit status 128")
          /\ \E left \in {Absent, {}, ClonePartial} : fs' = [fs EXCEPT ![tempName] = left]
    /\ pc' = "clone.strip"
    /\ UNCHANGED <<ret, visited, flagVars, projVars, tmplVars, appName,
                   tempName, gitStripped, cloneRet, laterVars>>

\* line 281: os.RemoveAll(path.Join(tempName, ".git"))
RemoveGit ==
    /\ pc = "clone.strip"
    /\ fs' = [fs EXCEPT ![tempName] = IF @ = Absent THEN Absent ELSE StripGit(@)]
    /\ gitStripped' = TRUE
    /\ pc' = "clone.spinret"
    /\ UNCHANGED <<ret, visited, effects, flagVars, projVars, tmplVars, appName,
                   tempName, cmdErr, cloneRet, laterVars>>

\* lines 284-286: Run() returns; its error is returned
SpinnerReturn ==
    /\ pc = "clone.spinret"
    /\ \/ /\ cloneRet' = Err("spinner")
          /\ pc' = "clone.defer"
       \/ /\ pc' = "clone.check"
          /\ UNCHANGED cloneRet
    /\ UNCHANGED <<ret, visited, effects, flagVars, projVars, tmplVars, appName, fs,
                   tempName, cmdErr, gitStripped, laterVars>>

\* lines 288-295: the clone error is returned, or the staged copy relocated
CloneFinish ==
    /\ pc = "clone.check"
    /\ IF ShouldRelocate(cmdErr)
       THEN \/ /\ cloneRet' = RelocateErr(fs, tempName, appName)
               /\ fs' = RelocateFS(fs, tempName, appName)
            \/ \* the rename itself fails: nothing is moved
               /\ cloneRet' = Err("rename: i/o error")
               /\ UNCHANGED fs
       ELSE /\ cloneRet' = cmdErr
            /\ UNCHANGED fs
    /\ pc' = "clone.defer"
    /\ UNCHANGED <<ret, visited, effects, flagVars, projVars, tmplVars, appName,
                   tempName, cmdErr, gitStripped, laterVars>>

\* the deferred cleanup() of line 274 runs as cloneTemplate returns
CleanupDeferred ==
    /\ pc = "clone.defer"
    /\ fs' = (IF CleanupRuns(cloneRet) THEN CleanupFS(fs, tempName) ELSE fs)
    /\ pc' = "clone.returned"
    /\ UNCHANGED <<ret, visited, effects, flagVars, projVars, tmplVars, appName,
                   cloneVars, laterVars>>

\* lines 251-253: if err := cloneTemplate(...); err != nil { return err }
ProceedAfterCloneAlways(r) == TRUE
ProceedAfterClone(r) == r = Nil

AfterClone ==
    /\ pc = "clone.returned"
    /\ IF ProceedAfterClone(cloneRet)
       THEN Enter("ReconcilingEnv")
       ELSE Fail(cloneRet)
    /\ UNCHANGED <<effects, flagVars, projVars, tmplVars, appName, fs, cloneVars, laterVars>>

\* ------------------------------------------------------ instantiateEnv
\* lines 257-259: if err := instantiateEnv(...); err != nil { return err }
ProceedAfterEnvAlways(r) == TRUE
ProceedAfterEnv(r) == r = Nil

\* lines 261-266: install selects doInstall, otherwise doPostCreate
TaskStateSwapped(inst) == IF inst THEN "PostCreating" ELSE "Installing"
TaskState(inst) == IF inst THEN "Installing" ELSE "PostCreating"

\* project.APIKey, project.APISecret, project.URL
APIKey(p) == <<"APIKey">> \o p
APISecret(p) == <<"APISecret">> \o p
URL(p) == <<"URL">> \o p

\* lines 299-303: the env map built from the active project
BaseKeys == {"LIVEKIT_API_KEY", "LIVEKIT_API_SECRET", "LIVEKIT_URL"}
BaseEnv(p) ==
    [k \in BaseKeys |->
        CASE k = "LIVEKIT_API_KEY" -> APIKey(p)
          [] k = "LIVEKIT_API_SECRET" -> APISecret(p)
          [] k = "LIVEKIT_URL" -> URL(p)]

\* lines 304-308: for k, v := range *addlEnv { env[k] = v }
MergeEnvBaseWins(env, addl) ==
    IF addl = <<>>
    THEN env
    ELSE [k \in DOMAIN env \cup DOMAIN addl[1] |->
             IF k \in DOMAIN env THEN env[k] ELSE addl[1][k]]
MergeEnv(env, addl) ==
    IF addl = <<>>
    THEN env
    ELSE [k \in DOMAIN env \cup DOMAIN addl[1] |->
             IF k \in DOMAIN addl[1] THEN addl[1][k] ELSE env[k]]

\* line 256: addlEnv := &map[string]string{"LIVEKIT_SANDBOX_ID": sandboxID}
SandboxEnv(id) == [k \in {"LIVEKIT_SANDBOX_ID"} |-> id]

\* bootstrap.InstantiateDotEnv(ctx, rootPath, env, verbose, prompt): the
\* environment file is created or updated at rootPath, or an error returned
DotEnvFS(f, root) == [f EXCEPT ![root] = @ \cup {".env"}]

\* instantiateEnv (lines 298-324) as called at lines 255-259
InstantiateEnv ==
    /\ pc = "ReconcilingEnv"
    /\ effects' = effects \cup {"InstantiateDotEnv"}
    /\ addlEnv' = <<SandboxEnv(sandboxID)>>
    /\ envPassed' = <<MergeEnv(BaseEnv(project), addlEnv')>>
    /\ \/ /\ envRet' = Err("dotenv")
          /\ UNCHANGED fs
       \/ /\ fs[appName] # Absent
          /\ envRet' = Nil
          /\ fs' = DotEnvFS(fs, appName)
    /\ IF ProceedAfterEnv(envRet')
       THEN Enter(TaskState(install))
       ELSE Fail(envRet')
    /\ UNCHANGED <<flagVars, projVars, tmplVars, appName, cloneVars, taskRet, taskRuns,
                   taskCmdErr, taskVars, otherVars>>

\* line 317: err != nil || newValue == ""
PromptKeepsOldOnError(newValue, err) == err # Nil
PromptKeepsOld(newValue, err) == err # Nil \/ newValue = Empty

\* the prompt closure (lines 310-321), given what the input form left in
\* newValue and the error its Run returned
prompt(oldValue, newValue, err) ==
    IF PromptKeepsOld(newValue, err)
    THEN <<oldValue, err>>
    ELSE <<newValue, Nil>>

\* ------------------------------------------------------ tasks
\* lines 346-355 and 369-378: the spinner's error, else the task's
SpinnerResultNil(se, taskErr) == Nil
SpinnerResultTaskFirst(se, taskErr) == IF taskErr # Nil THEN taskErr ELSE se
SpinnerResult(se, taskErr) == IF se # Nil THEN se ELSE taskErr

\* the executable unit runs in root: what it leaves there
TaskFS(f, root) == [f EXCEPT ![root] = IF @ = Absent THEN Absent ELSE @ \cup {"deps"}]

\* the command returns r
Return(r) ==
    IF r = Nil
    THEN /\ pc' = "Done"
         /\ visited' = Append(visited, "Done")
         /\ ret' = Nil
    ELSE Fail(r)

\* bootstrap.ParseTaskfile(rootPath): the error it returns with the task file
ParseErr(tf) == IF tf = BadTaskfile THEN Err("taskfile") ELSE Nil

\* lines 337, 360, 385: if err != nil { return err }
ProceedAfterParseAlways(e) == TRUE
ProceedAfterParse(e) == e = Nil

\* bootstrap.NewTask(ctx, tf, rootPath, name, verbose): the pairs <<task != nil,
\* err>> it may return; a name the task file does not define is an error
NewTaskOutcomes(tf, name) ==
    IF name \in TasksOf(tf)
    THEN {<<TRUE, Nil>>, <<FALSE, Err("task setup")>>}
    ELSE {<<FALSE, ErrNamed("task not found", name)>>}

\* lines 365, 407: if err != nil { return err }
ProceedAfterNewTaskAlways(e) == TRUE
ProceedAfterNewTask(e) == e = Nil

\* line 342: if task == nil || err != nil { return nil }
SkipPostCreateNever(hasTask, e) == FALSE
SkipPostCreate(hasTask, e) == ~hasTask \/ e # Nil

\* a spinner runs the task's executable unit once (lines 347-352, 370-375,
\* 411-416)
RunTask(root) ==
    \/ \* the spinner fails before the unit has run
       /\ spinErr' = Err("spinner")
       /\ taskRet' = SpinnerResult(spinErr', Nil)
       /\ UNCHANGED <<fs, taskRuns, taskCmdErr>>
    \/ \E taskErr \in {Nil, Err("task failed")}, se \in {Nil, Err("spinner")} :
          /\ taskRuns' = taskRuns + 1
          /\ taskCmdErr' = taskErr
          /\ spinErr' = se
          /\ \/ fs' = TaskFS(fs, root)
             \/ taskErr # Nil /\ UNCHANGED fs
          /\ taskRet' = SpinnerResult(se, taskErr)

\* the flow stops before any executable unit exists, returning e
NoRun(e) ==
    /\ taskRet' = e
    /\ UNCHANGED <<fs, taskRuns, taskCmdErr, spinErr>>

\* doInstall(ctx, task, rootPath, verbose) (lines 358-379)
doInstall(task, root) ==
    \E tf \in Taskfiles :
       /\ taskfile' = tf
       /\ IF ~ProceedAfterParse(ParseErr(tf))
          THEN /\ effects' = effects \cup {"ParseTaskfile"}
               /\ UNCHANGED taskName
               /\ NoRun(ParseErr(tf))
          ELSE /\ taskName' = task
               /\ \E o \in NewTaskOutcomes(tf, task) :
                     IF ~ProceedAfterNewTask(o[2])
                     THEN /\ effects' = effects \cup {"ParseTaskfile", "NewTask"}
                          /\ NoRun(o[2])
                     ELSE /\ effects' = effects \cup {"ParseTaskfile", "NewTask", "task"}
                          /\ RunTask(root)

\* doPostCreate(ctx, cmd, rootPath, verbose) (lines 335-356)
doPostCreate(root) ==
    \E tf \in Taskfiles :
       /\ taskfile' = tf
       /\ IF ~ProceedAfterParse(ParseErr(tf))
          THEN /\ effects' = effects \cup {"ParseTaskfile"}
               /\ UNCHANGED taskName
               /\ NoRun(ParseErr(tf))
          ELSE /\ taskName' = TaskPostCreate
               /\ \E o \in NewTaskOutcomes(tf, TaskPostCreate) :
                     IF SkipPostCreate(o[1], o[2])
                     THEN /\ effects' = effects \cup {"ParseTaskfile", "NewTask"}
                          /\ NoRun(Nil)
                     ELSE /\ effects' = effects \cup {"ParseTaskfile", "NewTask", "task"}
                          /\ RunTask(root)

\* doInstall as called at line 263
DoInstall ==
    /\ pc = "Installing"
    /\ doInstall(TaskInstall, appName)
    /\ Return(taskRet')
    /\ UNCHANGED <<flagVars, projVars, tmplVars, appName, cloneVars, envRet, envVars,
                   otherVars>>

\* doPostCreate as called at line 265
DoPostCreate ==
    /\ pc = "PostCreating"
    /\ doPostCreate(appName)
    /\ Return(taskRet')
    /\ UNCHANGED <<flagVars, projVars, tmplVars, appName, cloneVars, envRet, envVars,
                   otherVars>>

\* ------------------------------------------------------ specification
Next ==
    \/ RequireProject
    \/ ResolveTemplate
    \/ NameApp
    \/ UseTempPath
    \/ SpinnerFails
    \/ GitClone
    \/ RemoveGit
    \/ SpinnerReturn
    \/ CloneFinish
    \/ CleanupDeferred
    \/ AfterClone
    \/ InstantiateEnv
    \/ DoInstall
    \/ DoPostCreate

Spec == Init /\ [][Next]_vars

\* ------------------------------------------------------ properties
\* cloneTemplate has returned (its deferred cleanup has run)
CloneReturned == cloneRet # Running /\ pc # "clone.defer"
\* cloneTemplate has been called
CloneStarted == "cloneTemplate" \in effects
\* a directory that holds a whole working tree and no leftover of a failed clone
Complete(c) == c # Absent /\ "src" \in c /\ "part" \notin c
IsPrefix(a, b) == Len(a) <= Len(b) /\ \A i \in 1..Len(a) : a[i] = b[i]
Last(q) == q[Len(q)]
FlowOf(inst) ==
    <<"ResolvingProject", "ResolvingTemplate", "NamingApp", "Cloning",
      "ReconcilingEnv", TaskState(inst), "Done">>
ConflictError == Err("only one of template or template-url can be specified")
NoChildrenError == Err("no child templates found for sandbox")

\* C1 (as claimed): once cloneTemplate has returned, the final application
\* directory exists in a complete state if and only if it returned success.
C1_ExistsIffSuccess ==
    CloneReturned => (Complete(fs[appName]) <=> cloneRet = Nil)

\* C1 (amended): when the final application directory did not exist before
\* the command, then once cloneTemplate has returned the directory exists, and
\* is complete, exactly if cloneTemplate returned success, and otherwise does
\* not exist at all; when it did exist, cloneTemplate fails and the directory
\* is as it was.
C1_StagedCloneAllOrNothing ==
    CloneReturned =>
        IF fs0[appName] = Absent
        THEN /\ Complete(fs[appName]) <=> cloneRet = Nil
             /\ fs[appName] = Absent \/ Complete(fs[appName])
        ELSE /\ IsErr(cloneRet)
             /\ fs[appName] = fs0[appName]

C1_Witness ==
    /\ pc = "clone.returned"
    /\ cloneRet = Nil
    /\ fs0[appName] = Absent
    /\ fs[appName] = {"src"}

\* C2: once cloneTemplate has returned, whatever it returned, the staging
\* directory does not exist; and the staging path is never the final name
\* (nor any application path).
C2_StagingRemoved ==
    /\ CloneReturned => fs[tempName] = Absent
    /\ CloneStarted => tempName # appName /\ tempName \notin AppPaths

C2_Witness ==
    /\ pc = "clone.returned"
    /\ cmdErr # Nil
    /\ cloneRet = cmdErr
    /\ gitStripped
    /\ fs[tempName] = Absent

\* C3: if the final application directory exists before cloning starts, then
\* from the start of the clone on its contents are what they were, the command
\* never ends in success, and cloneTemplate returns an error.
C3_ExistingDirUntouched ==
    (CloneStarted /\ fs0[appName] # Absent) =>
        /\ fs[appName] = fs0[appName]
        /\ pc # "Done"
        /\ ret # Nil
        /\ CloneReturned => IsErr(cloneRet)
        /\ pc \notin {"ReconcilingEnv", "Installing", "PostCreating"}

C3_Witness ==
    /\ pc = "Failed"
    /\ argName = NameApp3
    /\ appName = argName
    /\ fs0[appName] = {"src", ".env"}
    /\ cmdErr = Nil
    /\ ret = Err("rename: file exists")

\* C4: with --template and --template-url both given, setupTemplate returns
\* the configuration error, and nothing has been fetched, asked, cloned or
\* changed on disk.
C4_ConflictFailsFirst ==
    (templateName # "" /\ urlFlag # "") =>
        /\ effects = {}
        /\ remoteResult = <<>>
        /\ fs = fs0
        /\ pc \in {"ResolvingProject", "ResolvingTemplate", "Failed"}
        /\ (pc = "Failed" /\ Last(visited) = "ResolvingTemplate") => ret = ConflictError

C4_Witness ==
    /\ templateName = "foo"
    /\ urlFlag = "u9"
    /\ pc = "Failed"
    /\ ret = ConflictError

\* C5: with --sandbox given, no --template-url, and a sandbox that resolves to
\* no child template, setupTemplate has failed with the resolution error and
\* the clone was not started: no staging path, nothing changed on disk.
C5_EmptySandboxFails ==
    (sandboxID # Empty /\ urlFlag = "" /\ remoteResult = <<Empty>>) =>
        /\ pc = "Failed"
        /\ ret = NoChildrenError
        /\ ~CloneStarted
        /\ "form" \notin effects
        /\ tempName = Empty
        /\ fs = fs0

C5_Witness ==
    /\ sandboxID = NameSandbox
    /\ remoteResult = <<Empty>>
    /\ ret = NoChildrenError

C7_StateOrder ==
    /\ IsPrefix(visited, FlowOf(install))
    /\ pc \notin {"Failed", "Done"} =>
          /\ ret = Running
          /\ pc \in {"clone.spinner", "clone.strip", "clone.spinret", "clone.check",
                     "clone.defer", "clone.returned"} \/ pc = Last(visited)
    /\ Len(visited) >= 5 => cloneRet = Nil
    /\ Len(visited) >= 6 => envRet = Nil
    /\ pc = "Done" <=> Last(visited) = "Done"
    /\ pc = "Done" => ret = Nil /\ taskRet = Nil
    /\ pc = "Failed" =>
          /\ IsErr(ret)
          /\ Last(visited) = "Cloning" => ret = cloneRet /\ envRet = Running /\ taskRet = Running
          /\ Last(visited) = "ReconcilingEnv" => ret = envRet /\ taskRet = Running
          /\ Last(visited) \in {"Installing", "PostCreating"} => ret = taskRet
          /\ Len(visited) <= 3 =>
                cloneRet = Running /\ envRet = Running /\ taskRet = Running /\ ~CloneStarted

C7_Witness ==
    /\ pc = "Done"
    /\ visited = FlowOf(FALSE)
    /\ taskRuns = 1

\* C8: once cloneTemplate has returned success the application directory
\* stays on disk, also when instantiateEnv, the task file, the spinner or the
\* task fails afterwards, and the command then returns that error.
C8_NoRollback ==
    (CloneReturned /\ cloneRet = Nil) =>
        /\ fs[appName] # Absent
        /\ "src" \in fs[appName]
        /\ IsErr(envRet) => pc = "Failed" /\ ret = envRet
        /\ IsErr(taskRet) => pc = "Failed" /\ ret = taskRet
        /\ IsErr(taskCmdErr) => pc = "Failed" /\ ret \in {taskCmdErr, Err("spinner")}

C8_Witness ==
    /\ pc = "Failed"
    /\ Last(visited) = "PostCreating"
    /\ ret = Err("task failed")
    /\ fs[appName] = {"src", ".env"}

\* C9: once the clone action has run, the staged copy holds no .git, whether
\* git clone failed or not, and this is so when the clone error is inspected;
\* after a successful cloneTemplate the application directory holds no .git;
\* a clone error is still returned.
C9_GitMetadataRemoved ==
    /\ pc \in {"clone.spinret", "clone.check"} =>
          gitStripped /\ ".git" \notin fs[tempName]
    /\ (CloneReturned /\ cloneRet = Nil) =>
          gitStripped /\ ".git" \notin fs[appName]
    /\ (CloneReturned /\ cmdErr # Nil) =>
          gitStripped /\ IsErr(cloneRet) /\ cloneRet \in {cmdErr, Err("spinner")}

C9_Witness ==
    /\ pc = "clone.check"
    /\ cmdErr # Nil
    /\ fs[tempName] = {"part"}

\* the template lookup of lines 206-217 was reached with the fetched list
LookupReached ==
    /\ templateName # ""
    /\ urlFlag = ""
    /\ remoteResult # <<>>
    /\ ~(sandboxID # Empty /\ remoteResult = <<Empty>>)
Available == remoteResult[1]
Named(name) == {i \in 1..Len(Available) : Available[i].Name = name}

\* C10: with --template given and no --template-url, the URL that is cloned
\* is the URL of a template of the available set named exactly templateName;
\* when the available set holds no template of that name, setupTemplate has
\* failed with the error that names it and the clone was not started.
C10_NamedTemplate ==
    LookupReached =>
        IF Named(templateName) = {}
        THEN /\ pc = "Failed"
             /\ ret = ErrNamed("template not found: ", templateName)
             /\ ~CloneStarted
        ELSE /\ \E i \in Named(templateName) :
                   templateURL = Available[i].URL /\ template = <<Available[i]>>
             /\ pc = "Failed" => ret # ErrNamed("template not found: ", templateName)

C10_Witness ==
    /\ templateName = "foo"
    /\ remoteResult = <<(<<Template("bar", "u3"), Template("foo", "u2")>>)>>
    /\ templateURL = "u2"
    /\ "git clone" \in effects

\* ------------------------------------------------------ task flows
Range(q) == {q[i] : i \in 1..Len(q)}

\* doPostCreate got a parsed task file that does not define post-create
PostCreateMissing ==
    /\ flow = "create"
    /\ "PostCreating" \in Range(visited)
    /\ taskfile[1] = "ok"
    /\ TaskPostCreate \notin TasksOf(taskfile)

\* C11: when the task file parses but does not define the post-create task,
\* doPostCreate returns nil and no executable unit is run, so the create
\* command ends in Done with a nil result.
C11_MissingPostCreateIsNoError ==
    PostCreateMissing =>
        /\ taskRet = Nil
        /\ taskRuns = 0
        /\ "task" \notin effects
        /\ pc = "Done"
        /\ ret = Nil
        /\ Last(visited) = "Done"

C11_Witness ==
    /\ PostCreateMissing
    /\ taskfile = Taskfile({TaskInstall})
    /\ taskName = TaskPostCreate
    /\ pc = "Done"

\* ------------------------------------------------------ install, run
\* line 390: the Select Task prompt is shown only without a TASK argument
SelectShown(arg) == IF arg = "" THEN {"Select Task"} ELSE {}

\* lines 389-404: the pairs <<taskName, err>> the argument or the prompt gives;
\* a prompt without options leaves taskName empty
SelectTask(tf, arg) ==
    IF arg # ""
    THEN {<<arg, Nil>>}
    ELSE {<<"", Err("user aborted")>>} \cup
         {<<n, Nil>> : n \in IF TasksOf(tf) = {} THEN {""} ELSE TasksOf(tf)}

\* lines 328-331: rootPath := cmd.Args().First(), "." when empty
RootPath(arg) == IF arg = Empty THEN Dot ELSE arg

\* installTemplate (lines 326-333), the action of `lk app install [DIR]`
installTemplate ==
    /\ pc = "installTemplate"
    /\ doInstall(TaskInstall, RootPath(argName))
    /\ Return(taskRet')
    /\ UNCHANGED <<flagVars, projVars, tmplVars, appName, cloneVars, envRet, envVars,
                   otherVars>>

\* runTask (lines 381-420), the action of `lk app run [TASK]`
runTask ==
    /\ pc = "runTask"
    /\ \E tf \in Taskfiles :
          /\ taskfile' = tf
          /\ IF ~ProceedAfterParse(ParseErr(tf))
             THEN /\ effects' = effects \cup {"ParseTaskfile"}
                  /\ UNCHANGED taskName
                  /\ NoRun(ParseErr(tf))
             ELSE \E sel \in SelectTask(tf, taskArg) :
                     /\ taskName' = sel[1]
                     /\ IF sel[2] # Nil
                        THEN /\ effects' = effects \cup {"ParseTaskfile"} \cup SelectShown(taskArg)
                             /\ NoRun(sel[2])
                        ELSE \E o \in NewTaskOutcomes(tf, sel[1]) :
                                IF ~ProceedAfterNewTask(o[2])
                                THEN /\ effects' = effects \cup {"ParseTaskfile", "NewTask"}
                                                           \cup SelectShown(taskArg)
                                     /\ NoRun(o[2])
                                ELSE /\ effects' = effects \cup {"ParseTaskfile", "NewTask", "task"}
                                                           \cup SelectShown(taskArg)
                                     /\ RunTask(Dot)
    /\ Return(taskRet')
    /\ UNCHANGED <<flagVars, projVars, tmplVars, appName, cloneVars, envRet, envVars,
                   otherVars>>

\* the variables of `lk app create` that the other commands leave alone
NoCreate ==
    /\ templateName = ""
    /\ templateURL = ""
    /\ urlFlag = ""
    /\ sandboxID = Empty
    /\ template = <<>>
    /\ templateOptions = <<>>
    /\ selectPending = FALSE
    /\ remoteResult = <<>>
    /\ cliProjects = 0
    /\ depth = 0
    /\ tempName = Empty
    /\ cmdErr = Nil
    /\ gitStripped = FALSE
    /\ cloneRet = Running

\* the directories the task flows run in
TaskPaths == {Dot, NameApp3}

\* where each task flow starts: `lk app install` and `lk app run` at their
\* action, doInstall and doPostCreate of `lk app create` at their call
TaskEntries ==
    {<<"install", "installTemplate">>, <<"install", "Installing">>,
     <<"post-create", "PostCreating">>, <<"run", "runTask">>}

\* a task flow is about to start; requireProject has run except for `run`
TaskInit ==
    /\ \E e \in TaskEntries : flow = e[1] /\ pc = e[2]
    /\ ret = Running
    /\ visited = <<pc>>
    /\ effects = {}
    /\ NoCreate
    /\ credsOK = TRUE
    /\ install = (pc = "Installing")
    /\ argName \in (IF pc = "installTemplate" THEN {Empty, NameApp3} ELSE {Empty})
    /\ appName = (IF pc \in {"Installing", "PostCreating"} THEN NameApp3 ELSE Empty)
    /\ taskArg \in (IF flow = "run" THEN TaskArgs ELSE {""})
    /\ project = (IF flow = "run" THEN NoProject ELSE DetailsProject)
    /\ fs \in [TaskPaths -> PreContents]
    /\ fs0 = fs
    /\ NoTask
    /\ NoEnv
    /\ NoPrompt
    /\ NoDispatch

TaskNext ==
    \/ installTemplate
    \/ DoInstall
    \/ DoPostCreate
    \/ runTask

TaskSpec == TaskInit /\ [][TaskNext]_vars

\* the flow has returned
Returned == pc \in {"Done", "Failed"}

\* C12: in the install, post-create and run flows, when ParseTaskfile fails
\* the flow returns that error, no executable unit is created or run, and
\* the Select Task prompt is not shown.
C12_ParseFailureIsTerminal ==
    taskfile = BadTaskfile =>
        /\ pc = "Failed"
        /\ ret = ParseErr(taskfile)
        /\ taskRuns = 0
        /\ effects = {"ParseTaskfile"}

C12_Witness ==
    /\ taskfile = BadTaskfile
    /\ flow = "run"
    /\ taskArg = ""
    /\ ret = Err("taskfile")

\* NewTask was asked for a name the parsed task file does not define
Unresolved ==
    /\ "NewTask" \in effects
    /\ taskfile[1] = "ok"
    /\ taskName \notin TasksOf(taskfile)

\* C13: in the install and run flows, when the parsed task file does not
\* define the task name, the flow returns the error of NewTask and no
\* executable unit is run.
C13_UnresolvedTaskIsTerminal ==
    (flow \in {"install", "run"} /\ Unresolved) =>
        /\ pc = "Failed"
        /\ ret = ErrNamed("task not found", taskName)
        /\ taskRuns = 0
        /\ "task" \notin effects

C13_Witness ==
    /\ flow = "run"
    /\ taskArg = "zzz"
    /\ taskfile = Taskfile({TaskInstall})
    /\ Unresolved
    /\ pc = "Failed"

\* the flow resolved its task and started the spinner
Resolved == "task" \in effects

\* C14 as stated: once a flow has resolved its task, the executable unit is
\* invoked exactly once and the flow returns the error the unit reported.
C14_OnceAndItsError ==
    /\ taskRuns <= 1
    /\ (Resolved /\ Returned) => (taskRuns = 1 /\ ret = taskCmdErr)

\* C14: the executable unit of a flow is invoked at most once and never
\* again; when the spinner itself returns no error the unit was invoked
\* exactly once and the flow returns the error the unit reported, and when
\* the spinner returns an error the flow returns the spinner's error.
C14_AtMostOnce ==
    /\ taskRuns <= 1
    /\ ~Resolved => taskRuns = 0
    /\ (Resolved /\ Returned) =>
          IF spinErr = Nil
          THEN taskRuns = 1 /\ ret = taskCmdErr
          ELSE ret = spinErr

C14_Witness ==
    /\ flow = "run"
    /\ Resolved
    /\ taskRuns = 1
    /\ spinErr = Nil
    /\ taskCmdErr = Err("task failed")
    /\ ret = Err("task failed")

\* ------------------------------------------------------ env
\* the extra maps instantiateEnv may be given: nil (`lk app env`), the sandbox
\* map of line 256, and maps that name a key of the base map
ExtraKeys == {"LIVEKIT_SANDBOX_ID", "LIVEKIT_URL"}
ExtraValues == {NameSandbox, <<"x">>}
ExtraMaps == UNION {[K -> ExtraValues] : K \in SUBSET ExtraKeys}
AddlEnvs == {<<>>} \cup {<<m>> : m \in ExtraMaps}

\* the keys InstantiateDotEnv may ask for, the values already in the file and
\* what the user may leave in the input
PromptKeys == {"LIVEKIT_URL", "OTHER"}
OldValues == {Empty, <<"x">>}
NewValues == {Empty, <<"x">>, <<"y">>}

\* instantiateEnv (lines 298-323) up to the call of InstantiateDotEnv
instantiateEnv ==
    /\ pc = "instantiateEnv"
    /\ pc' = "InstantiateDotEnv"
    /\ effects' = effects \cup {"InstantiateDotEnv"}
    /\ envPassed' = <<MergeEnv(BaseEnv(project), addlEnv)>>
    /\ UNCHANGED <<ret, visited, flagVars, projVars, tmplVars, appName, fs, cloneVars,
                   envRet, taskRet, taskRuns, taskCmdErr, taskVars, addlEnv, otherVars>>

\* InstantiateDotEnv calls prompt(key, oldValue); the input form leaves
\* newValue and returns err (lines 310-321)
Prompt ==
    /\ pc = "InstantiateDotEnv"
    /\ prompts < MaxPrompts
    /\ \E key \in PromptKeys, oldValue \in OldValues, newValue \in NewValues,
          err \in {Nil, Err("user aborted")} :
          /\ promptIn' = <<key, oldValue, newValue, err>>
          /\ promptOut' = prompt(oldValue, newValue, err)
    /\ prompts' = prompts + 1
    /\ UNCHANGED <<pc, ret, visited, effects, flagVars, projVars, tmplVars, appName, fs,
                   cloneVars, envRet, taskRet, taskRuns, taskCmdErr, taskVars, envVars,
                   flow, taskArg, dispVars>>

\* InstantiateDotEnv returns and instantiateEnv returns its result (line 323)
DotEnvReturns ==
    /\ pc = "InstantiateDotEnv"
    /\ \/ /\ envRet' = Err("dotenv")
          /\ UNCHANGED fs
       \/ /\ envRet' = Nil
          /\ fs' = DotEnvFS(fs, Dot)
    /\ Return(envRet')
    /\ UNCHANGED <<effects, flagVars, projVars, tmplVars, appName, cloneVars, taskRet,
                   taskRuns, taskCmdErr, taskVars, envVars, otherVars>>

\* instantiateEnv is about to run in "." with a resolved project
EnvInit ==
    /\ flow = "env"
    /\ pc = "instantiateEnv"
    /\ ret = Running
    /\ visited = <<pc>>
    /\ effects = {}
    /\ NoCreate
    /\ credsOK = TRUE
    /\ install = FALSE
    /\ argName = Empty
    /\ appName = Empty
    /\ taskArg = ""
    /\ project \in {DetailsProject, ConfigProject(1)}
    /\ fs \in [{Dot} -> PreContents]
    /\ fs0 = fs
    /\ addlEnv \in AddlEnvs
    /\ envPassed = <<>>
    /\ envRet = Running
    /\ NoTask
    /\ NoPrompt
    /\ NoDispatch

EnvNext ==
    \/ instantiateEnv
    \/ Prompt
    \/ DotEnvReturns

EnvSpec == EnvInit /\ [][EnvNext]_vars

\* the extra map, empty when addlEnv is nil
Extra == IF addlEnv = <<>> THEN <<>> ELSE addlEnv[1]

\* C15: the map handed to InstantiateDotEnv holds LIVEKIT_URL, LIVEKIT_API_KEY
\* and LIVEKIT_API_SECRET with the active project's values and every key of
\* the extra map and no other key; a key of the extra map carries the extra
\* map's value, also when it is one of the three base keys.
C15_EnvPassed ==
    envPassed # <<>> =>
        LET env == envPassed[1] IN
        /\ DOMAIN env = BaseKeys \cup DOMAIN Extra
        /\ \A k \in DOMAIN Extra : env[k] = Extra[k]
        /\ "LIVEKIT_URL" \notin DOMAIN Extra => env["LIVEKIT_URL"] = URL(project)
        /\ "LIVEKIT_API_KEY" \notin DOMAIN Extra => env["LIVEKIT_API_KEY"] = APIKey(project)
        /\ "LIVEKIT_API_SECRET" \notin DOMAIN Extra =>
               env["LIVEKIT_API_SECRET"] = APISecret(project)

C15_Witness ==
    /\ envPassed # <<>>
    /\ addlEnv # <<>>
    /\ DOMAIN Extra = ExtraKeys
    /\ Extra["LIVEKIT_URL"] = <<"x">>
    /\ envPassed[1]["LIVEKIT_URL"] = <<"x">>
    /\ envPassed[1]["LIVEKIT_API_KEY"] = APIKey(project)

\* C16: the prompt function returns the prior value when the input is empty
\* or the input form returned an error (with that error), and the entered
\* value with a nil error when the input is non-empty and the form returned
\* no error.
C16_PromptResult ==
    promptIn # <<>> =>
        LET oldValue == promptIn[2]
            newValue == promptIn[3]
            err == promptIn[4]
        IN  IF newValue = Empty \/ err # Nil
            THEN promptOut = <<oldValue, err>>
            ELSE promptOut = <<newValue, Nil>>

C16_Witness ==
    /\ promptIn = <<"LIVEKIT_URL", <<"x">>, Empty, Nil>>
    /\ promptOut = <<(<<"x">>), Nil>>

\* ------------------------------------------------------ dispatch commands
\* cmd.Args() of list, get and delete: ROOM_NAME and ID, given, empty or absent
ArgLists == {<<>>, <<"">>, <<"r1">>, <<"", "d1">>, <<"r1", "">>, <<"r1", "d1">>}
\* the flags of create: --room, --new-room, --agent-name, --metadata
CreateFlags ==
    [room : {"", "r1"}, newRoom : BOOLEAN, agentName : {"", "a1"}, metadata : {"", "m"}]
NoFlags == [room |-> "", newRoom |-> FALSE, agentName |-> "", metadata |-> ""]

\* cmd.Args().Get(i - 1): the empty string past the end
Arg(args, i) == IF i <= Len(args) THEN args[i] ELSE ""

\* cli.ShowSubcommandHelp(cmd) prints the help; the error it returns is nil
\* unless printing failed
HelpResults == {Nil, Err("help")}

\* utils.NewGuid("room-"): a fresh, non-empty room name
NewGuids == {"room-g1", "room-g2"}

\* what a call of the dispatch service returns
RemoteResults == {Nil, Err("rpc")}

\* lines 86, 105, 119, 187: cmd.Args().Len() == 0
NoArgs(args) == Len(args) = 0

\* lines 157-159: if cmd.Bool("new-room") { req.Room = utils.NewGuid("room-") }
RoomOfSupplied(room, newRoom, guid) == room
RoomOf(room, newRoom, guid) == IF newRoom THEN guid ELSE room

\* lines 160, 164: req.Room == "", req.AgentName == ""
Missing(s) == s = ""

\* the handler returns r without a call of the service
ReturnOnly(r) ==
    /\ Return(r)
    /\ UNCHANGED dCalls

\* the handler calls the service once and returns what the call returned
Call(req) ==
    /\ dCalls' = Append(dCalls, req)
    /\ \E e \in RemoteResults : Return(e)

\* return cli.ShowSubcommandHelp(cmd) (lines 87, 106, 120, 188)
ReturnHelp ==
    /\ dHelp' = dHelp + 1
    /\ \E h \in HelpResults : ReturnOnly(h)

\* createDispatchClient (lines 75-83), the Before hook of every command
createDispatchClient ==
    /\ pc = "createDispatchClient"
    /\ IF LoadProjectDetailsOK(credsOK)
       THEN /\ project' = DetailsProject
            /\ Enter(flow)
       ELSE /\ Fail(Err("config file"))
            /\ UNCHANGED project
    /\ UNCHANGED <<effects, flagVars, credsOK, cliProjects, depth, tmplVars, appName, fs,
                   cloneVars, laterVars>>

\* listDispatchAndPrint (lines 118-149)
listDispatchAndPrint(req) ==
    IF NoArgs(dArgs)
    THEN ReturnHelp
    ELSE Call(req) /\ UNCHANGED dHelp

\* getAgentDispatch (lines 85-102)
getAgentDispatch ==
    /\ pc = "get"
    /\ IF NoArgs(dArgs)
       THEN ReturnHelp
       ELSE IF Arg(dArgs, 1) = ""
       THEN ReturnOnly(Err("room name is required")) /\ UNCHANGED dHelp
       ELSE IF Arg(dArgs, 2) = ""
       THEN ReturnOnly(Err("dispatch ID is required")) /\ UNCHANGED dHelp
       ELSE listDispatchAndPrint(<<"ListDispatch", Arg(dArgs, 1), Arg(dArgs, 2)>>)
    /\ UNCHANGED <<effects, flagVars, projVars, tmplVars, appName, fs, cloneVars, envRet,
                   taskRet, taskRuns, taskCmdErr, taskVars, envVars, flow, taskArg,
                   promptVars, dArgs, dFlags>>

\* listAgentDispatches (lines 104-116)
listAgentDispatches ==
    /\ pc = "list"
    /\ IF NoArgs(dArgs)
       THEN ReturnHelp
       ELSE IF Arg(dArgs, 1) = ""
       THEN ReturnOnly(Err("room name is required")) /\ UNCHANGED dHelp
       ELSE listDispatchAndPrint(<<"ListDispatch", Arg(dArgs, 1), "">>)
    /\ UNCHANGED <<effects, flagVars, projVars, tmplVars, appName, fs, cloneVars, envRet,
                   taskRet, taskRuns, taskCmdErr, taskVars, envVars, flow, taskArg,
                   promptVars, dArgs, dFlags>>

\* createAgentDispatch (lines 151-184)
createAgentDispatch ==
    /\ pc = "create"
    /\ \E guid \in NewGuids :
          LET room == RoomOf(dFlags.room, dFlags.newRoom, guid) IN
          IF Missing(room)
          THEN /\ dHelp' = dHelp + 1
               /\ ReturnOnly(Err("room or new-room is required"))
          ELSE IF Missing(dFlags.agentName)
          THEN /\ dHelp' = dHelp + 1
               /\ ReturnOnly(Err("agent-name is required"))
          ELSE /\ Call(<<"CreateDispatch", room, dFlags.agentName, dFlags.metadata>>)
               /\ UNCHANGED dHelp
    /\ UNCHANGED <<effects, flagVars, projVars, tmplVars, appName, fs, cloneVars, envRet,
                   taskRet, taskRuns, taskCmdErr, taskVars, envVars, flow, taskArg,
                   promptVars, dArgs, dFlags>>

\* deleteAgentDispatch (lines 186-214)
deleteAgentDispatch ==
    /\ pc = "delete"
    /\ IF NoArgs(dArgs)
       THEN ReturnHelp
       ELSE IF Arg(dArgs, 1) = ""
       THEN ReturnOnly(Err("room name is required")) /\ UNCHANGED dHelp
       ELSE IF Arg(dArgs, 2) = ""
       THEN ReturnOnly(Err("dispatch ID is required")) /\ UNCHANGED dHelp
       ELSE Call(<<"DeleteDispatch", Arg(dArgs, 1), Arg(dArgs, 2)>>) /\ UNCHANGED dHelp
    /\ UNCHANGED <<effects, flagVars, projVars, tmplVars, appName, fs, cloneVars, envRet,
                   taskRet, taskRuns, taskCmdErr, taskVars, envVars, flow, taskArg,
                   promptVars, dArgs, dFlags>>

\* a dispatch command is about to run its Before hook
DispatchInit ==
    /\ flow \in {"list", "get", "create", "delete"}
    /\ pc = "createDispatchClient"
    /\ ret = Running
    /\ visited = <<pc>>
    /\ effects = {}
    /\ NoCreate
    /\ credsOK \in BOOLEAN
    /\ install = FALSE
    /\ argName = Empty
    /\ appName = Empty
    /\ taskArg = ""
    /\ project = NoProject
    /\ fs = [p \in {Dot} |-> {}]
    /\ fs0 = fs
    /\ dArgs \in (IF flow = "create" THEN {<<>>} ELSE ArgLists)
    /\ dFlags \in (IF flow = "create" THEN CreateFlags ELSE {NoFlags})
    /\ dCalls = <<>>
    /\ dHelp = 0
    /\ NoTask
    /\ NoEnv
    /\ NoPrompt

DispatchNext ==
    \/ createDispatchClient
    \/ getAgentDispatch
    \/ listAgentDispatches
    \/ createAgentDispatch
    \/ deleteAgentDispatch

DispatchSpec == DispatchInit /\ [][DispatchNext]_vars

\* the handler of the dispatch command ran and returned
HandlerReturned == Len(visited) >= 2 /\ Returned

\* a required argument of list, get or delete is absent or empty
MissingArgs ==
    \/ Len(dArgs) = 0
    \/ Arg(dArgs, 1) = ""
    \/ flow \in {"get", "delete"} /\ Arg(dArgs, 2) = ""

\* C17 as stated: when dispatch list, get or delete is run without its
\* required arguments, the handler returns an error, makes no call of the
\* service, and has printed the subcommand help when no argument was given.
C17_MissingArgsIsError ==
    (flow \in {"list", "get", "delete"} /\ HandlerReturned /\ MissingArgs) =>
        /\ ret # Nil
        /\ dCalls = <<>>
        /\ Len(dArgs) = 0 => dHelp = 1

\* the room and the agent name of the CreateDispatch requests that were sent
CreateCalls == {i \in 1..Len(dCalls) : dCalls[i][1] = "CreateDispatch"}

\* C18: createAgentDispatch calls CreateDispatch at most once and only with a
\* non-empty room and a non-empty agent name; when the room is empty without
\* new-room, or the agent name is empty, it returns its configuration error
\* and has called nothing; with new-room the request carries a generated
\* room name whatever room was supplied, without it the supplied room.
C18_CreateValidated ==
    flow = "create" =>
        /\ Len(dCalls) <= 1
        /\ CreateCalls = 1..Len(dCalls)
        /\ \A i \in CreateCalls :
              /\ dCalls[i][2] # ""
              /\ dCalls[i][3] # ""
              /\ dCalls[i][3] = dFlags.agentName
              /\ IF dFlags.newRoom
                 THEN dCalls[i][2] \in NewGuids
                 ELSE dCalls[i][2] = dFlags.room
        /\ HandlerReturned =>
              IF dFlags.room = "" /\ ~dFlags.newRoom
              THEN ret = Err("room or new-room is required") /\ dCalls = <<>>
              ELSE IF dFlags.agentName = ""
              THEN ret = Err("agent-name is required") /\ dCalls = <<>>
              ELSE Len(dCalls) = 1

C18_Witness ==
    /\ flow = "create"
    /\ dFlags.room = "r1"
    /\ dFlags.newRoom
    /\ dCalls = <<(<<"CreateDispatch", "room-g1", "a1", "m">>)>>
    /\ ret = Nil

\* ------------------------------------------------------ create: URL, project
\* C19 as stated: whenever Cloning has been entered, templateURL is non-empty
\* and the application name is non-empty.
C19_CloningHasURLAndName ==
    "Cloning" \in Range(visited) =>
        /\ templateURL # ""
        /\ appName # Empty

\* the driver states in which a task is attempted
TaskStates == {"Installing", "PostCreating"}

\* C20: every state after ResolvingProject, every collaborator call and the
\* env map are reached only with the package-level project set; "no project
\* selected" is returned only with no credentials and no local project, and
\* then nothing else has happened; a task is attempted only after
\* instantiateEnv returned nil, and then it is the install task when
\* --install is set and the post-create task otherwise, never both.
C20_ProjectFirstOneTask ==
    /\ (Len(visited) >= 2 \/ effects # {} \/ envPassed # <<>>) => project # NoProject
    /\ envPassed # <<>> => envPassed[1]["LIVEKIT_URL"] = URL(project)
    /\ ret = Err("no project selected") =>
          /\ pc = "Failed"
          /\ visited = <<"ResolvingProject">>
          /\ project = NoProject
          /\ ~LoadProjectDetailsOK(credsOK) /\ ~HasLocalProjects(cliProjects)
          /\ effects = {} /\ fs = fs0
    /\ Range(visited) \cap TaskStates \in
          (IF envRet # Nil THEN {{}}
           ELSE IF install THEN {{"Installing"}} ELSE {{"PostCreating"}})
    /\ taskfile # Unparsed => Range(visited) \cap TaskStates # {}
    /\ taskName # "" => taskName = (IF install THEN TaskInstall ELSE TaskPostCreate)
    /\ taskRuns <= 1

C20_Witness ==
    /\ depth = 1
    /\ project = ConfigProject(1)
    /\ install
    /\ envRet = Nil
    /\ taskName = TaskInstall
    /\ taskRuns = 1
    /\ pc = "Done"

====
